---- MODULE Spec2Model ----
(***************************************************************************)
(* Model of csv_to_sqlite.py: a driver (main) that resolves an input CSV   *)
(* path, connects to "<stem>.db", loads the CSV into table csv_data        *)
(* (create_table_from_csv), validates it (validate_data), prints it        *)
(* (print_all_records) and closes the connection.                          *)
(*                                                                         *)
(* Text is modelled as a sequence of one-character strings, so that        *)
(* strip, sanitisation, padding and joining act on characters.             *)
(* The CSV file is modelled after tokenisation by csv.reader: a header     *)
(* record and a sequence of data records, each a sequence of fields.       *)
(* The SQLite store is the committed table (dbTable), the connection's     *)
(* own view of it (view) and the open-transaction flag (inTxn): Python's   *)
(* sqlite3 module runs DDL in autocommit and opens a transaction           *)
(* implicitly before the first INSERT.                                     *)
(***************************************************************************)
EXTENDS Naturals, Sequences, FiniteSets

\* ---------------------------------------------------------------- bounds
MaxCols == 2
MaxRows == 2
MaxRuns == 2
MaxHeaderLen == 2

\* ------------------------------------------------------ program constants
DisplayWidth == 15
SampleLimit == 5

\* ------------------------------------------------------------- characters
AsciiUpper == {"Z", "F", "N", "E", "M"}
AsciiLower == {"a", "b", "i", "r", "s", "t", "m", "e", "l"}
AsciiLetters == AsciiUpper \cup AsciiLower
AsciiDigits == {"1", "7", "9"}
\* alphanumeric for str.isalnum, outside ASCII ("e-acute", "superscript 2")
UnicodeAlnum == {"é", "²"}
Whitespace == {" ", "\t"}
Punctuation == {"-", "!", "_"}

\* ASCII case folding, as SQLite compares column names
Fold(c) ==
  CASE c = "Z" -> "z"
    [] c = "F" -> "f"
    [] c = "N" -> "n"
    [] c = "E" -> "e"
    [] c = "M" -> "m"
    [] OTHER -> c

FoldName(s) == [i \in 1..Len(s) |-> Fold(s[i])]

\* ----------------------------------------------------------- text helpers
RECURSIVE LStrip(_)
LStrip(s) ==
  IF s # <<>> /\ Head(s) \in Whitespace THEN LStrip(Tail(s)) ELSE s

RECURSIVE RStrip(_)
RStrip(s) ==
  IF s # <<>> /\ s[Len(s)] \in Whitespace
  THEN RStrip(SubSeq(s, 1, Len(s) - 1))
  ELSE s

\* str.strip()
Strip(s) == RStrip(LStrip(s))

\* str.isalnum() on one character
IsAlnum(c) == c \in AsciiLetters \cup AsciiDigits \cup UnicodeAlnum

\* ''.join(c if c.isalnum() else '_' for c in header.strip())
CleanHeaderNoStrip(header) ==
  [i \in 1..Len(header) |-> IF IsAlnum(header[i]) THEN header[i] ELSE "_"]

CleanHeader(header) ==
  LET stripped == Strip(header)
  IN  [i \in 1..Len(stripped) |->
         IF IsAlnum(stripped[i]) THEN stripped[i] ELSE "_"]

CleanHeaders(headers) == [i \in 1..Len(headers) |-> CleanHeader(headers[i])]

\* while len(row) < n: row.append('') ; row = row[:n]
NormalizeRowNoTruncate(row, n) ==
  [j \in 1..(IF Len(row) < n THEN n ELSE Len(row)) |->
     IF j <= Len(row) THEN row[j] ELSE <<>>]

NormalizeRow(row, n) ==
  LET padded == [j \in 1..(IF Len(row) < n THEN n ELSE Len(row)) |->
                   IF j <= Len(row) THEN row[j] ELSE <<>>]
  IN  SubSeq(padded, 1, n)

Spaces(k) == [i \in 1..k |-> " "]

Dashes(k) == [i \in 1..k |-> "-"]

\* f"{value:15}" : left-aligned, padded to a minimum width, never cut
FormatFieldTruncating(s) ==
  IF Len(s) >= DisplayWidth THEN SubSeq(s, 1, DisplayWidth)
  ELSE s \o Spaces(DisplayWidth - Len(s))

FormatField(s) ==
  IF Len(s) >= DisplayWidth THEN s ELSE s \o Spaces(DisplayWidth - Len(s))

Separator == <<" ", "|", " ">>

\* " | ".join(cells)
RECURSIVE Join(_)
Join(cells) ==
  IF cells = <<>> THEN <<>>
  ELSE IF Len(cells) = 1 THEN cells[1]
  ELSE cells[1] \o Separator \o Join(Tail(cells))

FormatLine(values) == Join([j \in 1..Len(values) |-> FormatField(values[j])])

\* ------------------------------------------------------------------ store
NoTable == [exists |-> FALSE, cols |-> <<>>, rows |-> <<>>]

Table(cols, rows) == [exists |-> TRUE, cols |-> cols, rows |-> rows]

\* CREATE TABLE rejects two columns whose names are equal up to ASCII case
DuplicateColumns(cols) ==
  \E i, j \in 1..Len(cols) : i # j /\ FoldName(cols[i]) = FoldName(cols[j])

\* In the WHERE clause "" names the column whose name is empty when there is
\* one, and is the empty string literal otherwise.
EmptyRef(t, row) ==
  IF \E k \in 1..Len(t.cols) : t.cols[k] = <<>>
  THEN row[CHOOSE k \in 1..Len(t.cols) :
             /\ t.cols[k] = <<>>
             /\ \A m \in 1..(k - 1) : t.cols[m] # <<>>]
  ELSE <<>>

\* SELECT COUNT(*) ... WHERE "h1" = "" AND "h2" = "" ...
CountEmptyRows(t) ==
  Cardinality({i \in 1..Len(t.rows) :
                 \A j \in 1..Len(t.cols) : t.rows[i][j] = EmptyRef(t, t.rows[i])})

Min(a, b) == IF a < b THEN a ELSE b

\* ------------------------------------------------------------ input files
SeqsUpTo(S, n) == UNION {[1..k -> S] : k \in 0..n}

Long(k) == [i \in 1..k |-> "a"]

CsvFile(kind, headers, records, bad) ==
  [kind |-> kind, headers |-> headers, records |-> records, bad |-> bad]

\* the path names no file: os.path.exists is false
MissingFile == CsvFile("missing", <<>>, <<>>, FALSE)

\* a file csv.Sniffer cannot find a delimiter in, such as an empty file
UnsniffableFile == CsvFile("unsniffable", <<>>, <<>>, FALSE)

\* ragged files: header rows of 0 to MaxCols names, and one that repeats a
\* name; records of every width from 0 to one more than the widest header
\* row, whose j-th field is "1" written j times, and a record of empty
\* fields; bad marks a file whose last line csv.reader rejects with csv.Error
Name(j) == [i \in 1..j |-> "b"] \o <<"-">>

RaggedHeaders ==
  {[j \in 1..k |-> Name(j)] : k \in 0..MaxCols} \cup {<<Name(1), Name(1)>>}

Cell(j) == [i \in 1..j |-> "1"]

RaggedRecords ==
  {[j \in 1..k |-> Cell(j)] : k \in 0..(MaxCols + 1)}
    \cup {[j \in 1..MaxCols |-> <<>>]}

RaggedFiles ==
  {CsvFile("ok", h, r, b) :
     h \in RaggedHeaders,
     r \in SeqsUpTo(RaggedRecords, MaxRows),
     b \in BOOLEAN}

\* files with one header over characters of every class
HeaderAlphabet == {"a", "Z", "7", "é", "²", " ", "\t", "-", "!", "_"}

HeaderFiles ==
  {CsvFile("ok", <<h>>, <<<<<<"7">>>>>>, FALSE) :
     h \in SeqsUpTo(HeaderAlphabet, MaxHeaderLen)}

\* the file "First Name,E-Mail!" with one record
ExampleHeaders ==
  << <<"F", "i", "r", "s", "t", " ", "N", "a", "m", "e">>,
     <<"E", "-", "M", "a", "i", "l", "!">> >>

ExampleFile == CsvFile("ok", ExampleHeaders, << <<Cell(1), Cell(2)>> >>, FALSE)

\* files whose names and values are around the display width
WideTexts == {<<>>, Long(DisplayWidth - 1), Long(DisplayWidth), Long(DisplayWidth + 1)}

WideFiles ==
  {CsvFile("ok", h, r, FALSE) :
     h \in [1..2 -> WideTexts], r \in SeqsUpTo([1..2 -> WideTexts], 1)}

InputFiles ==
  {MissingFile, UnsniffableFile, ExampleFile}
    \cup RaggedFiles \cup HeaderFiles \cup WideFiles

\* what "<stem>.db" may hold before the first run
OldTable == Table(<<<<"b", "_">>>>, <<<<<<"9">>>>>>)

\* ------------------------------------------------------------------ state
VARIABLES
  file,           \* the CSV file at csv_file_path
  dbFileExists,   \* "<stem>.db" exists on disk
  dbTable,        \* csv_data as committed in "<stem>.db"
  conn,           \* the connection is open
  view,           \* csv_data as the open connection sees it
  inTxn,          \* the connection has an open transaction
  pc,             \* position of main
  clean_headers,  \* create_table_from_csv: clean_headers
  row_count,      \* create_table_from_csv: row_count
  loadResult,     \* "pending", "ok" (headers returned) or "failed" (None)
  err,            \* the exception that ended a step, "none" when none
  total_rows,     \* validate_data: total_rows
  empty_rows,     \* validate_data: empty_rows
  sample_rows,    \* validate_data: len(sample_rows)
  validResult,    \* "pending", "ok" (True) or "failed" (False)
  header_line,    \* print_all_records: header_line
  underline,      \* print_all_records: the line of dashes
  lines,          \* print_all_records: the row lines printed so far
  record_count,   \* print_all_records: record_count
  reported,       \* "Total records printed" was printed
  msgs,           \* kinds of console messages printed by this run
  exc,            \* an exception is propagating out of main
  run,            \* number of the current run
  trace,          \* driver states entered by this run, in order
  closeCount,     \* conn.close() calls of this run
  opened,         \* this run acquired a connection
  tableAtStart,   \* dbTable when this run started
  fileAtStart,    \* dbFileExists when this run started
  firstLoaded     \* dbTable after the first successful load, if any

vars ==
  <<file, dbFileExists, dbTable, conn, view, inTxn, pc, clean_headers,
    row_count, loadResult, err, total_rows, empty_rows, sample_rows,
    validResult, header_line, underline, lines, record_count, reported,
    msgs, exc, run, trace, closeCount, opened, tableAtStart, fileAtStart,
    firstLoaded>>

storeVars == <<dbFileExists, dbTable, conn, view, inTxn>>

loadVars == <<clean_headers, row_count, loadResult>>

validVars == <<total_rows, empty_rows, sample_rows, validResult>>

reportVars == <<header_line, underline, lines, record_count, reported>>

histVars == <<run, closeCount, opened, tableAtStart, fileAtStart>>

\* the locals of a run before main starts
FreshRun ==
  /\ pc = "ResolveInput"
  /\ clean_headers = <<>>
  /\ row_count = 0
  /\ loadResult = "pending"
  /\ err = "none"
  /\ total_rows = 0
  /\ empty_rows = 0
  /\ sample_rows = 0
  /\ validResult = "pending"
  /\ header_line = <<>>
  /\ underline = <<>>
  /\ lines = <<>>
  /\ record_count = 0
  /\ reported = FALSE
  /\ msgs = {}
  /\ exc = FALSE
  /\ trace = <<"ResolveInput">>
  /\ closeCount = 0
  /\ opened = FALSE

Init ==
  /\ file \in InputFiles
  /\ \E old \in {NoTable, OldTable} :
       /\ dbTable = old
       /\ dbFileExists = old.exists
       /\ tableAtStart = old
       /\ fileAtStart = old.exists
  /\ conn = FALSE
  /\ view = NoTable
  /\ inTxn = FALSE
  /\ run = 1
  /\ firstLoaded = [set |-> FALSE, table |-> NoTable]
  /\ FreshRun

\* ----------------------------------------------------------------- driver
\* the driver state a position of main belongs to, when it is its first
Stage(p) ==
  CASE p = "Sniff" -> "Load"
    [] p = "Validate" -> "Validate"
    [] p = "ReportHeader" -> "Report"
    [] p = "Close" -> "Close"
    [] OTHER -> "none"

Goto(p) ==
  /\ pc' = p
  /\ trace' = IF Stage(p) = "none" THEN trace ELSE Append(trace, Stage(p))

\* main: "if headers is None: return", inside try ... finally conn.close()
AfterLoadNoFinally(ok) == IF ok THEN "Validate" ELSE "Done"

AfterLoad(ok) == IF ok THEN "Validate" ELSE "Close"

\* main: "if validate_data(...) ... else: return", inside try ... finally
AfterValidateIgnored(ok) == "ReportHeader"

AfterValidate(ok) == IF ok THEN "ReportHeader" ELSE "Close"

\* main: the existence test comes before the connection is made
AfterResolveConnectFirst(exists) == "Connect"

AfterResolve(exists) == IF exists THEN "Connect" ELSE "Done"

\* DROP TABLE IF EXISTS csv_data
DropTableKept(t) == t

DropTable(t) == NoTable

\* CREATE TABLE IF NOT EXISTS csv_data (...): an existing table is kept
CreateTable(t, cols) == IF t.exists THEN t ELSE Table(cols, <<>>)

\* INSERT INTO csv_data VALUES (?, ...)
InsertRowFirst(t, row) == [t EXCEPT !.rows = <<row>> \o @]

InsertRow(t, row) == [t EXCEPT !.rows = Append(@, row)]

\* the except clause of create_table_from_csv that catches an exception
LoadMessage(e) ==
  CASE e = "csv" -> "Error reading CSV file"
    [] e \in {"storage", "syntax", "duplicate column", "column count"} -> "Database error"
    [] OTHER -> "Unexpected error"

\* main, lines 153-169: resolve the path and test that it exists
ResolveInput ==
  /\ pc = "ResolveInput"
  /\ Goto(AfterResolve(file.kind # "missing"))
  /\ msgs' = msgs \cup (IF file.kind = "missing"
                        THEN {"File does not exist"}
                        ELSE {"Loading CSV file", "Creating SQLite database"})
  /\ UNCHANGED <<file, storeVars, loadVars, err, validVars, reportVars, exc,
                 histVars, firstLoaded>>

\* main, lines 171-174 and create_database_connection: sqlite3.connect
\* creates the database file when it does not exist
Connect ==
  /\ pc = "Connect"
  /\ \E ok \in BOOLEAN :
       IF ok
       THEN /\ conn' = TRUE
            /\ opened' = TRUE
            /\ dbFileExists' = TRUE
            /\ view' = dbTable
            /\ Goto("Sniff")
            /\ UNCHANGED <<msgs, err>>
       ELSE /\ msgs' = msgs \cup {"Error connecting to database"}
            /\ err' = "storage"
            /\ Goto("Done")
            /\ UNCHANGED <<conn, opened, dbFileExists, view>>
  /\ UNCHANGED <<file, dbTable, inTxn, loadVars, validVars, reportVars, exc,
                 run, closeCount, tableAtStart, fileAtStart, firstLoaded>>

\* create_table_from_csv returns None, 0 from an except clause
LoadFails(e) ==
  /\ loadResult' = "failed"
  /\ err' = e
  /\ msgs' = msgs \cup {LoadMessage(e)}
  /\ Goto(AfterLoad(FALSE))

\* create_table_from_csv, lines 28-47: sniff the delimiter, read the header
\* record and clean the headers
LoadSniff ==
  /\ pc = "Sniff"
  /\ IF file.kind # "ok"
     THEN /\ LoadFails("csv")
          /\ UNCHANGED <<clean_headers>>
     ELSE /\ clean_headers' = CleanHeaders(file.headers)
          /\ Goto("Drop")
          /\ UNCHANGED <<loadResult, err, msgs>>
  /\ UNCHANGED <<file, storeVars, row_count, validVars, reportVars, exc,
                 histVars, firstLoaded>>

\* create_table_from_csv, line 50: DROP TABLE IF EXISTS, outside a transaction
LoadDrop ==
  /\ pc = "Drop"
  /\ \E ok \in BOOLEAN :
       IF ok
       THEN /\ view' = DropTable(view)
            /\ dbTable' = IF inTxn THEN dbTable ELSE DropTable(view)
            /\ Goto("Create")
            /\ UNCHANGED <<loadResult, err, msgs>>
       ELSE /\ LoadFails("storage")
            /\ UNCHANGED <<view, dbTable>>
  /\ UNCHANGED <<file, dbFileExists, conn, inTxn, clean_headers, row_count,
                 validVars, reportVars, exc, histVars, firstLoaded>>

\* create_table_from_csv, line 51: CREATE TABLE IF NOT EXISTS, outside a
\* transaction; no column or a repeated column name is an sqlite3.Error
LoadCreate ==
  /\ pc = "Create"
  /\ \E ok \in BOOLEAN :
       IF clean_headers = <<>>
       THEN /\ LoadFails("syntax")
            /\ UNCHANGED <<view, dbTable>>
       ELSE IF ~ok
       THEN /\ LoadFails("storage")
            /\ UNCHANGED <<view, dbTable>>
       ELSE IF ~view.exists /\ DuplicateColumns(clean_headers)
       THEN /\ LoadFails("duplicate column")
            /\ UNCHANGED <<view, dbTable>>
       ELSE /\ view' = CreateTable(view, clean_headers)
            /\ dbTable' = IF inTxn THEN dbTable ELSE CreateTable(view, clean_headers)
            /\ Goto("Insert")
            /\ UNCHANGED <<loadResult, err, msgs>>
  /\ UNCHANGED <<file, dbFileExists, conn, inTxn, clean_headers, row_count,
                 validVars, reportVars, exc, histVars, firstLoaded>>

\* create_table_from_csv, lines 61-69: one turn of the loop over the reader;
\* the first INSERT opens the transaction
LoadInsert ==
  /\ pc = "Insert"
  /\ row_count < Len(file.records)
  /\ \E ok \in BOOLEAN :
       LET row == NormalizeRow(file.records[row_count + 1], Len(clean_headers))
       IN  IF ~ok
           THEN /\ LoadFails("storage")
                /\ UNCHANGED <<view, inTxn, row_count>>
           ELSE IF Len(row) # Len(view.cols)
           THEN /\ LoadFails("column count")
                /\ inTxn' = TRUE
                /\ UNCHANGED <<view, row_count>>
           ELSE /\ view' = InsertRow(view, row)
                /\ inTxn' = TRUE
                /\ row_count' = row_count + 1
                /\ Goto(pc)
                /\ UNCHANGED <<loadResult, err, msgs>>
  /\ UNCHANGED <<file, dbFileExists, dbTable, conn, clean_headers, validVars,
                 reportVars, exc, histVars, firstLoaded>>

\* create_table_from_csv, line 61: the reader is exhausted, or raises
\* csv.Error on a line it cannot tokenise
LoadEndOfRecords ==
  /\ pc = "Insert"
  /\ row_count = Len(file.records)
  /\ IF file.bad
     THEN LoadFails("csv")
     ELSE /\ Goto("Commit")
          /\ UNCHANGED <<loadResult, err, msgs>>
  /\ UNCHANGED <<file, storeVars, clean_headers, row_count, validVars,
                 reportVars, exc, histVars, firstLoaded>>

\* create_table_from_csv, lines 71-73: commit and return the headers
LoadCommit ==
  /\ pc = "Commit"
  /\ \E ok \in BOOLEAN :
       IF ok
       THEN /\ dbTable' = view
            /\ inTxn' = FALSE
            /\ loadResult' = "ok"
            /\ msgs' = msgs \cup {"Successfully loaded"}
            /\ firstLoaded' = IF firstLoaded.set THEN firstLoaded
                              ELSE [set |-> TRUE, table |-> view]
            /\ Goto(AfterLoad(TRUE))
            /\ UNCHANGED err
       ELSE /\ LoadFails("storage")
            /\ UNCHANGED <<dbTable, inTxn, firstLoaded>>
  /\ UNCHANGED <<file, dbFileExists, conn, view, clean_headers, row_count,
                 validVars, reportVars, exc, histVars>>

\* outcomes of a step that queries the store or prints: success, an
\* sqlite3.Error, or an exception that its function does not catch
Outcomes == {"ok", "sqlite3.Error", "exception"}

\* validate_data and main, lines 182-187: three read-only queries
Validate ==
  /\ pc = "Validate"
  /\ \E o \in Outcomes :
       IF o = "ok" /\ view.exists
       THEN /\ total_rows' = Len(view.rows)
            /\ empty_rows' = CountEmptyRows(view)
            /\ sample_rows' = Min(SampleLimit, Len(view.rows))
            /\ validResult' = "ok"
            /\ msgs' = msgs \cup {"Validation: Found total rows",
                                  "Validation: Sample verified",
                                  "Data validation completed successfully"}
                            \cup (IF CountEmptyRows(view) > 0
                                  THEN {"Warning: completely empty rows"}
                                  ELSE {})
            /\ Goto(AfterValidate(TRUE))
            /\ UNCHANGED <<err, exc>>
       ELSE IF o = "exception"
       THEN /\ exc' = TRUE
            /\ err' = "exception"
            /\ Goto("Close")
            /\ UNCHANGED <<validVars, msgs>>
       ELSE /\ validResult' = "failed"
            /\ err' = "storage"
            /\ msgs' = msgs \cup {"Validation error", "Data validation failed"}
            /\ Goto(AfterValidate(FALSE))
            /\ UNCHANGED <<total_rows, empty_rows, sample_rows, exc>>
  /\ UNCHANGED <<file, storeVars, loadVars, reportVars, histVars, firstLoaded>>

\* print_all_records, lines 120-131: run the query, print the header line
\* and the line of dashes under it
ReportHeader ==
  /\ pc = "ReportHeader"
  /\ \E o \in Outcomes :
       IF o = "ok" /\ view.exists
       THEN /\ header_line' = FormatLine(clean_headers)
            /\ underline' = Dashes(Len(FormatLine(clean_headers)))
            /\ Goto("ReportFetch")
            /\ UNCHANGED <<err, exc, msgs>>
       ELSE IF o = "exception"
       THEN /\ exc' = TRUE
            /\ err' = "exception"
            /\ Goto("Close")
            /\ UNCHANGED <<header_line, underline, msgs>>
       ELSE /\ err' = "storage"
            /\ msgs' = msgs \cup {"Error printing records"}
            /\ Goto("Close")
            /\ UNCHANGED <<header_line, underline, exc>>
  /\ UNCHANGED <<file, storeVars, loadVars, validVars, lines, record_count,
                 reported, histVars, firstLoaded>>

\* print_all_records, lines 135-143: fetch one row and print it; SELECT *
\* without ORDER BY walks csv_data in rowid order, the order of insertion
ReportFetch ==
  /\ pc = "ReportFetch"
  /\ record_count < Len(view.rows)
  /\ \E o \in Outcomes :
       IF o = "ok"
       THEN /\ record_count' = record_count + 1
            /\ lines' = Append(lines, FormatLine(view.rows[record_count + 1]))
            /\ Goto(pc)
            /\ UNCHANGED <<err, exc, msgs>>
       ELSE IF o = "exception"
       THEN /\ exc' = TRUE
            /\ err' = "exception"
            /\ Goto("Close")
            /\ UNCHANGED <<lines, record_count, msgs>>
       ELSE /\ err' = "storage"
            /\ msgs' = msgs \cup {"Error printing records"}
            /\ Goto("Close")
            /\ UNCHANGED <<lines, record_count, exc>>
  /\ UNCHANGED <<file, storeVars, loadVars, validVars, header_line, underline,
                 reported, histVars, firstLoaded>>

\* print_all_records, lines 136-145: fetchone returns None, print the total
ReportEnd ==
  /\ pc = "ReportFetch"
  /\ record_count = Len(view.rows)
  /\ reported' = TRUE
  /\ msgs' = msgs \cup {"Total records printed"}
  /\ Goto("Close")
  /\ UNCHANGED <<file, storeVars, loadVars, err, validVars, header_line,
                 underline, lines, record_count, exc, histVars, firstLoaded>>

\* main, lines 192-194: conn.close() drops what was not committed
Close ==
  /\ pc = "Close"
  /\ conn' = FALSE
  /\ view' = NoTable
  /\ inTxn' = FALSE
  /\ closeCount' = closeCount + 1
  /\ msgs' = msgs \cup {"Database connection closed"}
  /\ Goto("Done")
  /\ UNCHANGED <<file, dbFileExists, dbTable, loadVars, err, validVars,
                 reportVars, exc, run, opened, tableAtStart, fileAtStart,
                 firstLoaded>>

\* the tool is run again on the same path, with the database file as the
\* previous run left it
Rerun ==
  /\ pc = "Done"
  /\ run < MaxRuns
  /\ run' = run + 1
  /\ tableAtStart' = dbTable
  /\ fileAtStart' = dbFileExists
  /\ pc' = "ResolveInput"
  /\ clean_headers' = <<>>
  /\ row_count' = 0
  /\ loadResult' = "pending"
  /\ err' = "none"
  /\ total_rows' = 0
  /\ empty_rows' = 0
  /\ sample_rows' = 0
  /\ validResult' = "pending"
  /\ header_line' = <<>>
  /\ underline' = <<>>
  /\ lines' = <<>>
  /\ record_count' = 0
  /\ reported' = FALSE
  /\ msgs' = {}
  /\ exc' = FALSE
  /\ trace' = <<"ResolveInput">>
  /\ closeCount' = 0
  /\ opened' = FALSE
  /\ UNCHANGED <<file, storeVars, firstLoaded>>

Next ==
  \/ ResolveInput
  \/ Connect
  \/ LoadSniff
  \/ LoadDrop
  \/ LoadCreate
  \/ LoadInsert
  \/ LoadEndOfRecords
  \/ LoadCommit
  \/ Validate
  \/ ReportHeader
  \/ ReportFetch
  \/ ReportEnd
  \/ Close
  \/ Rerun

Spec == Init /\ [][Next]_vars

\* ----------------------------------------------------------------- claims
Range(q) == {q[i] : i \in 1..Len(q)}

\* the j-th field a record is stored with: its own, or '' past its end
ExpectedField(rec, j) == IF j <= Len(rec) THEN rec[j] ELSE <<>>

ExpectedRow(rec, n) == [j \in 1..n |-> ExpectedField(rec, j)]

\* the table a complete load of the file stores
ExpectedTable ==
  Table(clean_headers,
        [i \in 1..Len(file.records) |->
           ExpectedRow(file.records[i], Len(clean_headers))])

\* C1 as stated: at the end of every run, whichever state failed, conn.close()
\* has been executed exactly once.
CloseExactlyOnceEveryRun == pc = "Done" => closeCount = 1

\* C1 amended: a run that acquired a connection executes conn.close() exactly
\* once, whichever of Load, Validate or Report failed or raised; a run that
\* ends at ResolveInput or at a failed connection acquired none and executes
\* it zero times. The handle is open exactly from its acquisition to Close.
CloseOncePerAcquiredHandle ==
  /\ closeCount <= 1
  /\ pc = "Done" => closeCount = (IF opened THEN 1 ELSE 0)
  /\ conn = (opened /\ closeCount = 0)
  /\ closeCount = 1 => pc = "Done"

CloseAfterValidateRaised ==
  pc = "Done" /\ exc /\ validResult = "pending" /\ loadResult = "ok" /\ closeCount = 1

\* the driver states, in the order main goes through them
DriverOrder == <<"ResolveInput", "Load", "Validate", "Report", "Close">>

Rank(st) == CHOOSE k \in 1..Len(DriverOrder) : DriverOrder[k] = st

\* C2: the driver states are entered in the order ResolveInput, Load,
\* Validate, Report, Close; after a failed Load the run enters Close next and
\* never Validate or Report; after a failed Validate it enters Close next and
\* never Report.
DriverStatesInOrder ==
  /\ \A i, j \in 1..Len(trace) : i < j => Rank(trace[i]) < Rank(trace[j])
  /\ trace[1] = "ResolveInput"
  /\ "Validate" \in Range(trace) => ("Load" \in Range(trace) /\ loadResult = "ok")
  /\ "Report" \in Range(trace) => ("Validate" \in Range(trace) /\ validResult = "ok")
  /\ "Close" \in Range(trace) => "Load" \in Range(trace)
  /\ loadResult = "failed" =>
       /\ trace = <<"ResolveInput", "Load", "Close">>
       /\ pc \in {"Close", "Done"}
  /\ validResult = "failed" =>
       /\ trace = <<"ResolveInput", "Load", "Validate", "Close">>
       /\ pc \in {"Close", "Done"}

ValidateFailedThenClosed ==
  pc = "Done" /\ validResult = "failed" /\ closeCount = 1 /\ ~reported

\* C3 as stated: when the load fails after it started, the committed store
\* holds no partial result: csv_data is as it was before the run.
FailedLoadLeavesStore == loadResult = "failed" => dbTable = tableAtStart

\* view is the table this run has created and is filling or has filled
Loading == pc \in {"Insert", "Commit"} \/ (loadResult = "ok" /\ conn)

\* C4: every stored row has exactly len(clean_headers) fields; the i-th
\* stored row is the i-th data record, followed by empty strings when it is
\* shorter and cut to its first len(clean_headers) fields when it is longer;
\* no record is rejected for its field count.
StoredRowWidth ==
  /\ \A t \in {view, dbTable} :
       \A i \in 1..Len(t.rows) : Len(t.rows[i]) = Len(t.cols)
  /\ err # "column count"
  /\ Loading =>
       /\ view.cols = clean_headers
       /\ Len(view.rows) = row_count
       /\ \A i \in 1..row_count :
            /\ Len(view.rows[i]) = Len(clean_headers)
            /\ \A j \in 1..Len(clean_headers) :
                 view.rows[i][j] = ExpectedField(file.records[i], j)
  /\ loadResult = "ok" =>
       /\ row_count = Len(file.records)
       /\ conn => dbTable = view

ShortAndLongRecordStored ==
  /\ loadResult = "ok"
  /\ \E i, k \in 1..Len(file.records) :
       /\ Len(file.records[i]) < Len(clean_headers)
       /\ Len(file.records[k]) > Len(clean_headers)
       /\ Len(dbTable.rows[i]) = Len(clean_headers)
       /\ Len(dbTable.rows[k]) = Len(clean_headers)

\* C5: a run that completes its report for a file of N data records has
\* loaded N rows, counted N rows, and printed N record lines, the i-th line
\* showing the i-th record, its j-th cell holding the record's value for the
\* j-th header; the three counts are N.
RoundTrip ==
  reported =>
    /\ row_count = Len(file.records)
    /\ total_rows = Len(file.records)
    /\ record_count = Len(file.records)
    /\ Len(lines) = Len(file.records)
    /\ header_line = FormatLine(clean_headers)
    /\ \A i \in 1..Len(file.records) :
         lines[i] = FormatLine(ExpectedRow(file.records[i], Len(clean_headers)))

TwoDistinctRecordsReported ==
  /\ reported
  /\ pc = "Done"
  /\ Len(file.records) = 2
  /\ lines[1] # lines[2]
  /\ Len(file.records[1]) # Len(clean_headers)

\* C6: a successful load leaves csv_data holding exactly the file's header
\* columns and records, whatever the table held before the run, so every
\* successful run on the same file leaves the content the first one left.
RerunIdempotent ==
  loadResult = "ok" =>
    /\ dbTable = ExpectedTable
    /\ firstLoaded.set
    /\ dbTable = firstLoaded.table

SecondRunOverLoadedTable ==
  /\ run >= 2
  /\ pc = "Done"
  /\ loadResult = "ok"
  /\ tableAtStart = firstLoaded.table
  /\ tableAtStart.rows # <<>>

\* C7: when the input path names no file, the run ends at ResolveInput with
\* the does-not-exist message: no connection is acquired, the database file
\* and csv_data are as before the run, and Load, Validate, Report and Close
\* are never entered.
MissingInputAborts ==
  file.kind = "missing" =>
    /\ pc \in {"ResolveInput", "Done"}
    /\ trace = <<"ResolveInput">>
    /\ ~opened /\ ~conn /\ closeCount = 0
    /\ dbFileExists = fileAtStart
    /\ dbTable = tableAtStart
    /\ pc = "Done" => msgs = {"File does not exist"}

MissingInputRunEnded ==
  file.kind = "missing" /\ pc = "Done" /\ ~dbFileExists /\ run = MaxRuns

\* C8 as stated: when the delimiter cannot be sniffed, the failed run writes
\* nothing: csv_data is untouched and no database file is produced.
SniffFailureWritesNothing ==
  (file.kind = "unsniffable" /\ loadResult = "failed") =>
    /\ dbTable = tableAtStart
    /\ dbFileExists = fileAtStart

\* h without its leading and trailing whitespace is h[a+1 .. b]
StripsTo(h, a, b) ==
  /\ \A k \in 1..a : h[k] \in Whitespace
  /\ \A k \in (b + 1)..Len(h) : h[k] \in Whitespace
  /\ a < b => (h[a + 1] \notin Whitespace /\ h[b] \notin Whitespace)

\* clean is h stripped, with every character outside keep replaced by "_"
SanitizedBy(keep, clean, h) ==
  /\ Len(clean) <= Len(h)
  /\ \E a \in 0..(Len(h) - Len(clean)) :
       /\ StripsTo(h, a, a + Len(clean))
       /\ \A k \in 1..Len(clean) :
            clean[k] = IF h[a + k] \in keep THEN h[a + k] ELSE "_"

\* create_table_from_csv has computed clean_headers in this run
HeadersRead == file.kind = "ok" /\ opened /\ pc # "Sniff"

\* C9 as stated: each header is stripped and then every character that is
\* not an ASCII letter or digit becomes "_".
SanitizeAsciiOnly ==
  HeadersRead =>
    /\ Len(clean_headers) = Len(file.headers)
    /\ \A i \in 1..Len(file.headers) :
         SanitizedBy(AsciiLetters \cup AsciiDigits, clean_headers[i], file.headers[i])

\* C9 amended: each header, in header order, is stripped of leading and
\* trailing whitespace and then every character that is not alphanumeric in
\* the sense of str.isalnum becomes "_": ASCII letters and digits and also
\* non-ASCII letters and digits are kept, the length of the stripped header
\* is preserved, cleaning a cleaned header changes nothing, and
\* "First Name", "E-Mail!" become "First_Name", "E_Mail_".
SanitizeIsalnum ==
  HeadersRead =>
    /\ Len(clean_headers) = Len(file.headers)
    /\ \A i \in 1..Len(file.headers) :
         /\ SanitizedBy(AsciiLetters \cup AsciiDigits \cup UnicodeAlnum,
                        clean_headers[i], file.headers[i])
         /\ CleanHeader(clean_headers[i]) = clean_headers[i]
    /\ file.headers = ExampleHeaders =>
         clean_headers = << <<"F", "i", "r", "s", "t", "_", "N", "a", "m", "e">>,
                            <<"E", "_", "M", "a", "i", "l", "_">> >>

StrippedAndReplaced ==
  /\ HeadersRead
  /\ \E i \in 1..Len(file.headers) :
       /\ Len(clean_headers[i]) < Len(file.headers[i])
       /\ "_" \in Range(clean_headers[i])
       /\ "_" \notin Range(file.headers[i])

\* the width f"{v:15}" renders v at
CellWidth(v) == IF Len(v) > DisplayWidth THEN Len(v) ELSE DisplayWidth

RECURSIVE Offset(_, _)
Offset(values, j) ==
  IF j = 1 THEN 0
  ELSE Offset(values, j - 1) + CellWidth(values[j - 1]) + Len(Separator)

\* line shows values, each in full, then spaces up to its cell width, the
\* cells separated by " | "
LineShows(line, values) ==
  LET n == Len(values)
  IN  /\ Len(line) = Offset(values, n) + CellWidth(values[n])
      /\ \A j \in 1..n :
           LET off == Offset(values, j)
           IN  /\ SubSeq(line, off + 1, off + Len(values[j])) = values[j]
               /\ \A k \in (off + Len(values[j]) + 1)..(off + CellWidth(values[j])) :
                    line[k] = " "
               /\ j < n =>
                    SubSeq(line, off + CellWidth(values[j]) + 1,
                           off + CellWidth(values[j]) + Len(Separator)) = Separator

FixedLineLength(n) == n * DisplayWidth + (n - 1) * Len(Separator)

HeaderPrinted == header_line # <<>>

\* C10 as stated: every column name and every field is rendered at exactly
\* 15 characters, longer values cut, so the header line and all row lines
\* have the same length, which is also the underline's.
ReportFixedWidth ==
  HeaderPrinted =>
    /\ Len(header_line) = FixedLineLength(Len(clean_headers))
    /\ \A i \in 1..Len(lines) : Len(lines[i]) = Len(header_line)
    /\ underline = Dashes(Len(header_line))

\* C10 amended: every column name and every field is rendered in full,
\* followed by spaces up to 15 characters when it is shorter (a longer value
\* is not cut and takes its own length), and the cells are joined by " | ";
\* the underline is made of "-" and has the header line's length; the header
\* line and a row line have the same length when none of their values is
\* longer than 15 characters.
ReportMinimumWidth ==
  HeaderPrinted =>
    /\ LineShows(header_line, clean_headers)
    /\ underline = Dashes(Len(header_line))
    /\ \A i \in 1..Len(lines) :
         LET row == ExpectedRow(file.records[i], Len(clean_headers))
         IN  /\ LineShows(lines[i], row)
             /\ ( /\ \A j \in 1..Len(clean_headers) :
                       Len(clean_headers[j]) <= DisplayWidth
                  /\ \A j \in 1..Len(row) : Len(row[j]) <= DisplayWidth )
                => Len(lines[i]) = Len(header_line)

LongValueReported ==
  /\ pc = "ReportFetch"
  /\ Len(lines) = 1
  /\ Len(header_line) = FixedLineLength(Len(clean_headers))
  /\ Len(lines[1]) > Len(header_line)
====
